---- MODULE Spec2Model ----
(***************************************************************************)
(* Model of the LibraryManager of webcore: the registry of library loaders *)
(* and of the library instances already constructed, with the lifecycle    *)
(* calls (Install, Connect, Disconnect, Uninstall) it makes on them.       *)
(*                                                                         *)
(* Libraries is the instance cache (bucket name -> instance key ->         *)
(* instance).  insts is the heap of the library objects that hold          *)
(* resources: an object enters it when its Install succeeds and leaves it  *)
(* when its Uninstall succeeds; st is how far its lifecycle has got        *)
(* ("installed", "connected", "disconnected").  nextId is the              *)
(* identity the next object gets; an identity is never reused once an      *)
(* object was installed under it.  last records the most recent            *)
(* operation: its inputs, what it returned, the lifecycle calls it made,   *)
(* the cache it started from and the object it found cached under the      *)
(* compound key it addressed (pre).                                        *)
(*                                                                         *)
(* tasks are the goroutines that are inside LoadFromLoader at the same     *)
(* time, reqs the requests inside the handler of AuthN, probe one call of  *)
(* an Install or a loader's Init with the arguments it was given.          *)
(* LoadedUser is the user the store wrapper of the one Authenticator of    *)
(* an AuthN holds: Authenticator.Check writes it, GetLoadedUser reads it.  *)
(***************************************************************************)
EXTENDS Integers, Sequences, FiniteSets, TLC

VARIABLES Loaders, types, Libraries, insts, nextId, last, tasks, reqs, probe,
          LoadedUser

vars == <<Loaders, types, Libraries, insts, nextId, last, tasks, reqs, probe,
          LoadedUser>>

--------------------------------------------------------------------------
(* Bounds of the model *)

\* library objects installed in one behaviour
MaxInst == 2

\* positional arguments passed to an Install or to a loader's Init
MaxArgs == 2

\* loaders in the list given to CheckSingleLoader
MaxLoaders == 3

\* fields of a struct given to MarshalDbMap
MaxFields == 2

--------------------------------------------------------------------------
(* The fixed world: loaders, concrete types, keys, construction arguments *)

\* nil library / nil key pointer
NoInst == 0
NilKey == "<nil>"
DefaultKey == "default"

\* the identities the auth store knows; no user
Users == {"alice", "bob"}
NoUser == "<none>"

\* CreateLibraryManager(loaders): SetName(k) on every loader of the map
\* (key -> loader, a loader being known by its kind), Loaders = loaders,
\* Libraries empty
CreateLoaders(loaders) ==
    [n \in DOMAIN loaders |-> [name |-> n, kind |-> loaders[n]]]
InitLibraries == << >>

\* does the library a loader constructs implement port.Connector
LoaderConn(load) == load.kind = "mongo"

\* concrete Go types handed to the type-keyed path; bare name by reflection
Types == {"MongoDatabase", "Cache", "Plain"}

\* the programs: the loaders map a program registers and the library types
\* it loads by type.  "Cache" is a loader key and the bare name of a type.
Programs ==
    { [loaders |-> ("Cache" :> "plain"), types |-> {"Cache", "Plain"}],
      [loaders |-> ("db:mongodb" :> "mongo"), types |-> {"MongoDatabase"}] }
TypeName(t) == t
\* lib.(port.Library) and lib.(port.Connector) on a value of the type
IsLibrary(t) == t \in {"MongoDatabase", "Cache"}
IsConnector(t) == t = "MongoDatabase"

Keys == {DefaultKey, "k1"}
Args == {"cfgA", "cfgB"}

--------------------------------------------------------------------------
(* Maps *)

Put(m, k, v) == [x \in DOMAIN m \cup {k} |-> IF x = k THEN v ELSE m[x]]
Delete(m, k) == [x \in DOMAIN m \ {k} |-> m[x]]

\* the compound keys of a cache
Slots(libs) == {s \in (DOMAIN libs) \X Keys : s[2] \in DOMAIN libs[s[1]]}
At(libs, s) == libs[s[1]][s[2]]

--------------------------------------------------------------------------
(* Library objects and the lifecycle calls on them *)

\* a library object whose Install(args) succeeded; what Install makes of
\* its arguments is the library's own business and is not modelled
NewInst(is, id, conn, via, slot, args) ==
    Put(is, id, [conn |-> conn, via |-> via, slot |-> slot,
                 st |-> "installed"])

\* a lifecycle call that succeeded moves the object on
SetSt(is, id, st) == [is EXCEPT ![id].st = st]

\* result of an operation of the registry
Res(libs, is, ret, err, trace, inits) ==
    [libs |-> libs, insts |-> is, ret |-> ret, err |-> err, trace |-> trace,
     inits |-> inits]

--------------------------------------------------------------------------
(* Loader.Init: construct, Install, and Connect when connection-bearing.   *)
(* out is what the library's own code does: "ok", or the call that fails.  *)

LoaderInit(is, id, load, slot, args, out) ==
    LET i1 == NewInst(is, id, LoaderConn(load), "loader", slot, args)
        i2 == SetSt(i1, id, "connected")
    IN  IF out = "install"
        THEN Res(<< >>, is, NoInst, "install", <<<<id, "Install", FALSE>>>>, 1)
        ELSE IF ~LoaderConn(load)
        THEN Res(<< >>, i1, id, "none", <<<<id, "Install", TRUE>>>>, 1)
        ELSE IF out = "connect"
        THEN Res(<< >>, i1, NoInst, "connect",
                 <<<<id, "Install", TRUE>>, <<id, "Connect", FALSE>>>>, 1)
        ELSE Res(<< >>, i2, id, "none",
                 <<<<id, "Install", TRUE>>, <<id, "Connect", TRUE>>>>, 1)

\* the outcomes the library code of a loader can have
InitOuts(load) == IF LoaderConn(load) THEN {"ok", "install", "connect"}
                  ELSE {"ok", "install"}

--------------------------------------------------------------------------
(* LibraryManager.LoadFromLoader *)

\* variant: singletons are kept under a key of their own
StoreKeySingletonApart(singleton, key) ==
    IF singleton THEN "singleton" ELSE IF key = NilKey THEN DefaultKey ELSE key

\* the key an instance is stored under
StoreKey(singleton, key) ==
    IF singleton THEN DefaultKey ELSE IF key = NilKey THEN DefaultKey ELSE key

\* a cache hit: the cached instance, nothing else
Hit(libs, is, name, k) == Res(libs, is, libs[name][k], "none", << >>, 0)

\* variant: the bucket is created before Init and is left behind on failure
InitAndStoreBucketFirst(libs, is, id, load, name, k, args, out) ==
    LET r == LoaderInit(is, id, load, <<name, k>>, args, out)
        b == IF name \in DOMAIN libs THEN libs[name] ELSE << >>
    IN  IF r.err # "none"
        THEN Res(Put(libs, name, b), r.insts, NoInst, r.err, r.trace, r.inits)
        ELSE Res(Put(libs, name, Put(b, k, r.ret)), r.insts, r.ret, "none",
                 r.trace, r.inits)

\* construction through the loader, then the store on success
InitAndStore(libs, is, id, load, name, k, args, out) ==
    LET r == LoaderInit(is, id, load, <<name, k>>, args, out)
    IN  IF r.err # "none"
        THEN Res(libs, r.insts, NoInst, r.err, r.trace, r.inits)
        ELSE Res(Put(libs, name,
                     IF name \in DOMAIN libs THEN Put(libs[name], k, r.ret)
                     ELSE (k :> r.ret)),
                 r.insts, r.ret, "none", r.trace, r.inits)

\* variant: no look at the instances of an existing bucket
LoadFromLoaderNoLookup(libs, is, id, load, name, singleton, key, args, out) ==
    InitAndStore(libs, is, id, load, name, StoreKey(singleton, key), args, out)

LoadFromLoader(libs, is, id, load, name, singleton, key, args, out) ==
    IF name \notin DOMAIN libs
    THEN InitAndStore(libs, is, id, load, name, StoreKey(singleton, key), args,
                      out)
    ELSE IF singleton /\ DefaultKey \in DOMAIN libs[name]
    THEN Hit(libs, is, name, DefaultKey)
    ELSE IF ~singleton /\ key = NilKey
    THEN Res(libs, is, NoInst, "panic", << >>, 0)
    ELSE IF ~singleton /\ key \in DOMAIN libs[name]
    THEN Hit(libs, is, name, key)
    ELSE InitAndStore(libs, is, id, load, name, StoreKey(singleton, key), args,
                      out)

LoadSingletonFromLoader(libs, is, id, load, args, out) ==
    LoadFromLoader(libs, is, id, load, load.name, TRUE, NilKey, args, out)

LoadInstanceFromLoader(libs, is, id, load, key, args, out) ==
    LoadFromLoader(libs, is, id, load, load.name, FALSE, key, args, out)

--------------------------------------------------------------------------
(* LibraryManager.LoadLibrary: the type-keyed path *)

\* reflect.New, Install, and Connect when connect is asked for
Construct(is, id, t, slot, args, out, connect) ==
    LET i1 == NewInst(is, id, IsConnector(t), "type", slot, args)
        i2 == SetSt(i1, id, "connected")
    IN  IF out = "install"
        THEN Res(<< >>, is, NoInst, "install", <<<<id, "Install", FALSE>>>>, 0)
        ELSE IF ~(connect /\ IsConnector(t))
        THEN Res(<< >>, i1, id, "none", <<<<id, "Install", TRUE>>>>, 0)
        ELSE IF out = "connect"
        THEN Res(<< >>, i1, NoInst, "connect",
                 <<<<id, "Install", TRUE>>, <<id, "Connect", FALSE>>>>, 0)
        ELSE Res(<< >>, i2, id, "none",
                 <<<<id, "Install", TRUE>>, <<id, "Connect", TRUE>>>>, 0)

\* variant: the bucket of the type is made before the value is asked for
\* the Library capability
LoadFirstBucketBeforeAssert(libs, is, id, t, k, args, out) ==
    LET name == TypeName(t)
        r == Construct(is, id, t, <<name, k>>, args, out, TRUE)
    IN  IF ~IsLibrary(t)
        THEN Res(Put(libs, name, << >>), is, NoInst, "notlibrary", << >>, 0)
        ELSE IF r.err # "none"
        THEN Res(libs, r.insts, NoInst, r.err, r.trace, 0)
        ELSE Res(Put(libs, name, (k :> r.ret)), r.insts, r.ret, "none",
                 r.trace, 0)

\* first instance of a type: Install, Connect, new bucket, store
LoadFirst(libs, is, id, t, k, args, out) ==
    LET name == TypeName(t)
        r == Construct(is, id, t, <<name, k>>, args, out, TRUE)
    IN  IF ~IsLibrary(t) THEN Res(libs, is, NoInst, "notlibrary", << >>, 0)
        ELSE IF r.err # "none"
        THEN Res(libs, r.insts, NoInst, r.err, r.trace, 0)
        ELSE Res(Put(libs, name, (k :> r.ret)), r.insts, r.ret, "none",
                 r.trace, 0)

\* further instance in an existing bucket: Install, store
LoadFurther(libs, is, id, t, k, args, out) ==
    LET name == TypeName(t)
        r == Construct(is, id, t, <<name, k>>, args, out, FALSE)
    IN  IF ~IsLibrary(t) THEN Res(libs, is, NoInst, "notlibrary", << >>, 0)
        ELSE IF r.err # "none"
        THEN Res(libs, r.insts, NoInst, r.err, r.trace, 0)
        ELSE Res(Put(libs, name, Put(libs[name], k, r.ret)), r.insts, r.ret,
                 "none", r.trace, 0)

LoadLibrary(libs, is, id, t, singleton, key, args, out) ==
    LET name == TypeName(t)
    IN  IF name \notin DOMAIN libs
        THEN LoadFirst(libs, is, id, t, StoreKey(singleton, key), args, out)
        ELSE IF singleton /\ DefaultKey \in DOMAIN libs[name]
        THEN Hit(libs, is, name, DefaultKey)
        ELSE IF ~singleton /\ key = NilKey
        THEN Res(libs, is, NoInst, "panic", << >>, 0)
        ELSE IF ~singleton /\ key \in DOMAIN libs[name]
        THEN Hit(libs, is, name, key)
        ELSE LoadFurther(libs, is, id, t, StoreKey(singleton, key), args, out)

LoadSingleton(libs, is, id, t, args, out) ==
    LoadLibrary(libs, is, id, t, TRUE, NilKey, args, out)

LoadInstance(libs, is, id, t, key, args, out) ==
    LoadLibrary(libs, is, id, t, FALSE, key, args, out)

\* the outcomes the library code of a type can have on the two branches
TypeOuts(libs, t) ==
    IF IsConnector(t) /\ TypeName(t) \notin DOMAIN libs
    THEN {"ok", "install", "connect"} ELSE {"ok", "install"}

--------------------------------------------------------------------------
(* LibraryManager.unload, UnloadLibrary *)

\* variant: the error of Disconnect is dropped and Uninstall goes ahead
unloadDisconnectIgnored(libs, is, name, id, libKey, out) ==
    LET conn == is[id].conn
        d    == IF conn THEN <<<<id, "Disconnect", out # "disconnect">>>>
                ELSE << >>
        m    == Delete(libs[name], libKey)
    IN  Res(IF DOMAIN m = {} THEN Delete(libs, name) ELSE Put(libs, name, m),
            Delete(is, id), id, "none",
            d \o <<<<id, "Uninstall", TRUE>>>>, 0)

\* variant: the entry is deleted before Uninstall is called
unloadDeleteFirst(libs, is, name, id, libKey, out) ==
    LET conn == is[id].conn
        d    == IF conn THEN <<<<id, "Disconnect", out # "disconnect">>>>
                ELSE << >>
        i1   == IF conn THEN SetSt(is, id, "disconnected") ELSE is
        m    == Delete(libs[name], libKey)
        gone == IF DOMAIN m = {} THEN Delete(libs, name)
                ELSE Put(libs, name, m)
    IN  IF conn /\ out = "disconnect"
        THEN Res(libs, is, NoInst, "disconnect", d, 0)
        ELSE IF out = "uninstall"
        THEN Res(gone, i1, NoInst, "uninstall",
                 d \o <<<<id, "Uninstall", FALSE>>>>, 0)
        ELSE Res(gone, Delete(i1, id), id, "none",
                 d \o <<<<id, "Uninstall", TRUE>>>>, 0)

\* variant: the object is torn down and its entry stays in the map
unloadKeepsEntry(libs, is, name, id, libKey, out) ==
    LET conn == is[id].conn
        d    == IF conn THEN <<<<id, "Disconnect", out # "disconnect">>>>
                ELSE << >>
        i1   == IF conn THEN SetSt(is, id, "disconnected") ELSE is
    IN  IF conn /\ out = "disconnect"
        THEN Res(libs, is, NoInst, "disconnect", d, 0)
        ELSE IF out = "uninstall"
        THEN Res(libs, i1, NoInst, "uninstall",
                 d \o <<<<id, "Uninstall", FALSE>>>>, 0)
        ELSE Res(libs, Delete(i1, id), id, "none",
                 d \o <<<<id, "Uninstall", TRUE>>>>, 0)

\* variant: the entry stays in the map after Uninstall
unloadNoDelete(libs, is, name, id, libKey, out) ==
    LET conn == is[id].conn
        d    == IF conn THEN <<<<id, "Disconnect", out # "disconnect">>>>
                ELSE << >>
        i1   == IF conn THEN SetSt(is, id, "disconnected") ELSE is
    IN  IF conn /\ out = "disconnect"
        THEN Res(libs, is, NoInst, "disconnect", d, 0)
        ELSE IF out = "uninstall"
        THEN Res(libs, i1, NoInst, "uninstall",
                 d \o <<<<id, "Uninstall", FALSE>>>>, 0)
        ELSE Res(libs, i1, id, "none",
                 d \o <<<<id, "Uninstall", TRUE>>>>, 0)

\* out: "ok", or the call that fails: "disconnect", "uninstall"
unload(libs, is, name, id, libKey, out) ==
    LET conn == is[id].conn
        d    == IF conn THEN <<<<id, "Disconnect", out # "disconnect">>>>
                ELSE << >>
        i1   == IF conn THEN SetSt(is, id, "disconnected") ELSE is
        m    == Delete(libs[name], libKey)
    IN  IF conn /\ out = "disconnect"
        THEN Res(libs, is, NoInst, "disconnect", d, 0)
        ELSE IF out = "uninstall"
        THEN Res(libs, i1, NoInst, "uninstall",
                 d \o <<<<id, "Uninstall", FALSE>>>>, 0)
        ELSE Res(IF DOMAIN m = {} THEN Delete(libs, name)
                 ELSE Put(libs, name, m),
                 Delete(i1, id), id, "none",
                 d \o <<<<id, "Uninstall", TRUE>>>>, 0)

UnloadOuts(is, id) == IF is[id].conn THEN {"ok", "disconnect", "uninstall"}
                      ELSE {"ok", "uninstall"}

\* variant: the instance is not looked up before it is torn down
UnloadLibraryNoLookup(libs, is, t, singleton, key, out) ==
    LET name   == TypeName(t)
        libKey == IF singleton THEN DefaultKey ELSE key
    IN  IF name \notin DOMAIN libs
        THEN Res(libs, is, NoInst, "notfound", << >>, 0)
        ELSE IF ~singleton /\ key = NilKey
        THEN Res(libs, is, NoInst, "keyrequired", << >>, 0)
        ELSE IF libKey \notin DOMAIN libs[name]
        THEN Res(libs, is, NoInst, "panic", << >>, 0)
        ELSE unload(libs, is, name, libs[name][libKey], libKey, out)

UnloadLibrary(libs, is, t, singleton, key, out) ==
    LET name   == TypeName(t)
        libKey == IF singleton THEN DefaultKey ELSE key
    IN  IF name \notin DOMAIN libs
        THEN Res(libs, is, NoInst, "notfound", << >>, 0)
        ELSE IF ~singleton /\ key = NilKey
        THEN Res(libs, is, NoInst, "keyrequired", << >>, 0)
        ELSE IF libKey \notin DOMAIN libs[name]
        THEN Res(libs, is, NoInst, "notfound", << >>, 0)
        ELSE unload(libs, is, name, libs[name][libKey], libKey, out)

UnloadSingleton(libs, is, t, out) ==
    UnloadLibrary(libs, is, t, TRUE, NilKey, out)

UnloadInstance(libs, is, t, key, out) ==
    UnloadLibrary(libs, is, t, FALSE, key, out)

--------------------------------------------------------------------------
(* LibraryManager.Destroy: unload of every cached instance, errors logged. *)
(* order is the order in which the two nested range loops meet the slots,  *)
(* outs what the library code of each instance does.                       *)

\* variant: the sweep returns the first error
RECURSIVE DestroySweepFirstError(_, _, _)
DestroySweepFirstError(st, order, outs) ==
    IF order = << >> THEN st
    ELSE LET s == Head(order)
             r == unload(st.libs, st.insts, s[1], st.libs[s[1]][s[2]], s[2],
                         outs[s])
         IN  IF r.err # "none"
             THEN Res(r.libs, r.insts, NoInst, r.err, st.trace \o r.trace, 0)
             ELSE DestroySweepFirstError(Res(r.libs, r.insts, NoInst, "none",
                                             st.trace \o r.trace, 0),
                                         Tail(order), outs)

\* variant: a delete under the range makes it pass over the next entry
RECURSIVE DestroySweepSkipsAfterDelete(_, _, _)
DestroySweepSkipsAfterDelete(st, order, outs) ==
    IF order = << >> THEN st
    ELSE LET s == Head(order)
             r == unload(st.libs, st.insts, s[1], st.libs[s[1]][s[2]], s[2],
                         outs[s])
             rest == IF r.err = "none" /\ Len(order) > 1
                     THEN Tail(Tail(order)) ELSE Tail(order)
         IN  DestroySweepSkipsAfterDelete(Res(r.libs, r.insts, NoInst, "none",
                                              st.trace \o r.trace, 0),
                                          rest, outs)

RECURSIVE DestroySweep(_, _, _)
DestroySweep(st, order, outs) ==
    IF order = << >> THEN st
    ELSE LET s == Head(order)
             r == unload(st.libs, st.insts, s[1], st.libs[s[1]][s[2]], s[2],
                         outs[s])
         IN  DestroySweep(Res(r.libs, r.insts, NoInst, "none",
                              st.trace \o r.trace, 0),
                          Tail(order), outs)

Destroy(libs, is, order, outs) ==
    DestroySweep(Res(libs, is, NoInst, "none", << >>, 0), order, outs)

\* the orders of a range over the buckets with a range over the keys inside
IsRangeOrder(o, n) ==
    /\ \A i, j \in 1..n : i # j => o[i] # o[j]
    /\ \A i, j, k \in 1..n :
          (i < j /\ j < k /\ o[i][1] = o[k][1]) => o[j][1] = o[i][1]

RangeOrders(libs) ==
    LET S == Slots(libs)
        n == Cardinality(S)
    IN  {o \in [1..n -> S] : IsRangeOrder(o, n)}

DestroyOuts(libs, is) ==
    {f \in [Slots(libs) -> {"ok", "disconnect", "uninstall"}] :
        \A s \in Slots(libs) : f[s] \in UnloadOuts(is, At(libs, s))}

--------------------------------------------------------------------------
(* The read operations *)

\* a keyed read of an existing bucket dereferences the key pointer
GetLibrary(libs, name, singleton, key) ==
    IF name \in DOMAIN libs /\ singleton /\ DefaultKey \in DOMAIN libs[name]
    THEN [ret |-> libs[name][DefaultKey], found |-> TRUE, panic |-> FALSE]
    ELSE IF name \in DOMAIN libs /\ ~singleton /\ key = NilKey
    THEN [ret |-> NoInst, found |-> FALSE, panic |-> TRUE]
    ELSE IF name \in DOMAIN libs /\ ~singleton /\ key \in DOMAIN libs[name]
    THEN [ret |-> libs[name][key], found |-> TRUE, panic |-> FALSE]
    ELSE [ret |-> NoInst, found |-> FALSE, panic |-> FALSE]

GetSingletonInstance(libs, name) == GetLibrary(libs, name, TRUE, NilKey)
GetInstance(libs, name, key) == GetLibrary(libs, name, FALSE, key)
GetLoader(loaders, name) == name \in DOMAIN loaders

--------------------------------------------------------------------------
(* The state machine: one call of the registry per step, single-threaded *)

BucketNames == DOMAIN Loaders \cup {TypeName(t) : t \in types}

NoRec == [conn |-> FALSE, via |-> "none", slot |-> <<"", "">>,
          st |-> "none"]

NoOp == [op |-> "none", name |-> "", key |-> NilKey, args |-> "",
         ret |-> NoInst, err |-> "none", trace |-> << >>, inits |-> 0,
         before |-> InitLibraries, pre |-> NoRec]

\* no goroutine inside LoadFromLoader, no request inside the handler, no
\* call of an Install or Init looked at
NoTasks == << >>
NoReqs == << >>
NoProbe == [fn |-> "none", args |-> << >>, env |-> "none", res |-> "none",
            st |-> "none", eff |-> << >>]

\* the object cached under a compound key, as it is before the operation
Pre(name, key) ==
    IF <<name, key>> \in Slots(Libraries) THEN insts[Libraries[name][key]]
    ELSE NoRec

Init ==
    /\ \E p \in Programs :
          /\ Loaders = CreateLoaders(p.loaders)
          /\ types = p.types
    /\ Libraries = InitLibraries
    /\ insts = << >>
    /\ nextId = 1
    /\ last = NoOp
    /\ tasks = NoTasks
    /\ reqs = NoReqs
    /\ probe = NoProbe
    /\ LoadedUser = NoUser

\* an object was installed under the identity id
Installed(trace, id) ==
    \E i \in 1..Len(trace) : trace[i] = <<id, "Install", TRUE>>

\* variant: a loader whose load failed is taken out of the registry
DoDropsFailedLoader(op, name, key, args, r) ==
    /\ Installed(r.trace, nextId) => nextId <= MaxInst
    /\ Loaders' = IF op \in {"LoadSingletonFromLoader", "LoadInstanceFromLoader"}
                     /\ r.err # "none" /\ name \in DOMAIN Loaders
                  THEN Delete(Loaders, name) ELSE Loaders
    /\ UNCHANGED <<types, tasks, reqs, probe, LoadedUser>>
    /\ Libraries' = r.libs
    /\ insts' = r.insts
    /\ nextId' = IF Installed(r.trace, nextId) THEN nextId + 1 ELSE nextId
    /\ last' = [op |-> op, name |-> name, key |-> key, args |-> args,
                ret |-> r.ret, err |-> r.err, trace |-> r.trace,
                inits |-> r.inits, before |-> Libraries,
                pre |-> Pre(name, key)]

Do(op, name, key, args, r) ==
    /\ Installed(r.trace, nextId) => nextId <= MaxInst
    /\ UNCHANGED <<Loaders, types, tasks, reqs, probe, LoadedUser>>
    /\ Libraries' = r.libs
    /\ insts' = r.insts
    /\ nextId' = IF Installed(r.trace, nextId) THEN nextId + 1 ELSE nextId
    /\ last' = [op |-> op, name |-> name, key |-> key, args |-> args,
                ret |-> r.ret, err |-> r.err, trace |-> r.trace,
                inits |-> r.inits, before |-> Libraries,
                pre |-> Pre(name, key)]

DoGet(op, name, key, g) ==
    /\ UNCHANGED <<Loaders, types, Libraries, insts, nextId, tasks, reqs,
                   probe, LoadedUser>>
    /\ last' = [op |-> op, name |-> name, key |-> key, args |-> "",
                ret |-> g.ret,
                err |-> IF g.panic THEN "panic"
                        ELSE IF g.found THEN "none" ELSE "miss",
                trace |-> << >>, inits |-> 0, before |-> Libraries,
                pre |-> Pre(name, key)]

LoadSingletonFromLoaderStep ==
    \E n \in DOMAIN Loaders, a \in Args : \E out \in InitOuts(Loaders[n]) :
        \E r \in {LoadSingletonFromLoader(Libraries, insts, nextId, Loaders[n],
                                          a, out)} :
            Do("LoadSingletonFromLoader", n, DefaultKey, a, r)

LoadInstanceFromLoaderStep ==
    \E n \in DOMAIN Loaders, k \in Keys, a \in Args :
      \E out \in InitOuts(Loaders[n]) :
        \E r \in {LoadInstanceFromLoader(Libraries, insts, nextId, Loaders[n],
                                         k, a, out)} :
            Do("LoadInstanceFromLoader", n, k, a, r)

LoadSingletonStep ==
    \E t \in types, a \in Args : \E out \in TypeOuts(Libraries, t) :
        \E r \in {LoadSingleton(Libraries, insts, nextId, t, a, out)} :
            Do("LoadSingleton", TypeName(t), DefaultKey, a, r)

LoadInstanceStep ==
    \E t \in types, k \in Keys, a \in Args :
      \E out \in TypeOuts(Libraries, t) :
        \E r \in {LoadInstance(Libraries, insts, nextId, t, k, a, out)} :
            Do("LoadInstance", TypeName(t), k, a, r)

\* what the library code of the instance an unload reaches can do
OutsAt(libs, is, name, k) ==
    IF <<name, k>> \in Slots(libs) THEN UnloadOuts(is, libs[name][k])
    ELSE {"ok"}

UnloadSingletonStep ==
    \E t \in types :
      \E out \in OutsAt(Libraries, insts, TypeName(t), DefaultKey) :
        \E r \in {UnloadSingleton(Libraries, insts, t, out)} :
            Do("UnloadSingleton", TypeName(t), DefaultKey, "", r)

UnloadInstanceStep ==
    \E t \in types, k \in Keys :
      \E out \in OutsAt(Libraries, insts, TypeName(t), k) :
        \E r \in {UnloadInstance(Libraries, insts, t, k, out)} :
            Do("UnloadInstance", TypeName(t), k, "", r)

DestroyStep ==
    \E order \in RangeOrders(Libraries), outs \in DestroyOuts(Libraries, insts) :
        \E r \in {Destroy(Libraries, insts, order, outs)} :
            Do("Destroy", "", NilKey, "", r)

GetSingletonInstanceStep ==
    \E n \in BucketNames :
        DoGet("GetSingletonInstance", n, DefaultKey,
              GetSingletonInstance(Libraries, n))

GetInstanceStep ==
    \E n \in BucketNames, k \in Keys :
        DoGet("GetInstance", n, k, GetInstance(Libraries, n, k))

\* GetLibrary called directly: singleton or keyed, the key pointer nil or not
GetLibraryStep ==
    \E n \in BucketNames, singleton \in BOOLEAN, k \in Keys \cup {NilKey} :
        DoGet("GetLibrary", n, IF singleton THEN DefaultKey ELSE k,
              GetLibrary(Libraries, n, singleton, k))

\* names asked of GetLoader: the registered ones and one that is not
LoaderNames == DOMAIN Loaders \cup {"adhoc"}

GetLoaderStep ==
    \E n \in LoaderNames :
        DoGet("GetLoader", n, NilKey,
              [ret |-> NoInst, found |-> GetLoader(Loaders, n),
               panic |-> FALSE])

Next ==
    \/ LoadSingletonFromLoaderStep
    \/ LoadInstanceFromLoaderStep
    \/ LoadSingletonStep
    \/ LoadInstanceStep
    \/ UnloadSingletonStep
    \/ UnloadInstanceStep
    \/ DestroyStep

Spec == Init /\ [][Next]_vars

\* a loader value that is in no registry: SetName was never called on it
UnregisteredLoader == [name |-> "", kind |-> "mongo"]

\* LoadSingletonFromLoader / LoadInstanceFromLoader handed a loader that
\* was not taken from GetLoader
LoadFromUnregisteredStep ==
    \E singleton \in BOOLEAN, k \in Keys, a \in Args :
      \E out \in InitOuts(UnregisteredLoader) :
        \E r \in {IF singleton
                  THEN LoadSingletonFromLoader(Libraries, insts, nextId,
                                               UnregisteredLoader, a, out)
                  ELSE LoadInstanceFromLoader(Libraries, insts, nextId,
                                              UnregisteredLoader, k, a, out)} :
            Do(IF singleton THEN "LoadSingletonFromLoader"
               ELSE "LoadInstanceFromLoader",
               UnregisteredLoader.name,
               IF singleton THEN DefaultKey ELSE k, a, r)

\* LoadFromLoader called directly: the name is an argument of its own, the
\* key pointer may be nil
LoadFromLoaderStep ==
    \E n \in DOMAIN Loaders, name \in LoaderNames, singleton \in BOOLEAN,
       k \in Keys \cup {NilKey}, a \in Args :
      \E out \in InitOuts(Loaders[n]) :
        \E r \in {LoadFromLoader(Libraries, insts, nextId, Loaders[n], name,
                                 singleton, k, a, out)} :
            Do("LoadFromLoader", name, StoreKey(singleton, k), a, r)

\* the registry with every exported way into the loader path
NextDirect == Next \/ LoadFromUnregisteredStep \/ LoadFromLoaderStep

SpecDirect == Init /\ [][NextDirect]_vars

\* the registry with its read operations
NextRead ==
    \/ Next
    \/ GetSingletonInstanceStep
    \/ GetInstanceStep
    \/ GetLibraryStep
    \/ GetLoaderStep

SpecRead == Init /\ [][NextRead]_vars

--------------------------------------------------------------------------
(* LoadFromLoader entered by two goroutines: the registry has no lock, so  *)
(* the lookup, the Init and the store of one call interleave with those of *)
(* the other.  A map write that overlaps another goroutine's map access is *)
(* a data race: the write goes through, or the runtime stops the process   *)
(* with a fatal error.                                                     *)

Tasks == {"t1", "t2"}

\* a goroutine that has just called LoadSingletonFromLoader (keyed FALSE)
\* or LoadInstanceFromLoader (keyed TRUE)
NewTask(n, singleton, key) ==
    [pc |-> "check", load |-> n, name |-> Loaders[n].name,
     key |-> StoreKey(singleton, key), seen |-> "none", lib |-> NoInst,
     err |-> "none"]

TaskSlot(t) == <<tasks[t].name, tasks[t].key>>

Running == \A t \in DOMAIN tasks : tasks[t].pc # "fatal"

\* variant: a store leaves an instance that is already under the key alone
StoreInstKeepFirst(libs, name, k, lib, seen) ==
    IF name \in DOMAIN libs /\ k \in DOMAIN libs[name] THEN libs
    ELSE IF name \in DOMAIN libs THEN Put(libs, name, Put(libs[name], k, lib))
    ELSE Put(libs, name, (k :> lib))

\* the store: a bucket made by this call replaces whatever is under the
\* name; otherwise the instance is written into the bucket that is there
StoreInst(libs, name, k, lib, seen) ==
    IF seen = "nobucket" THEN Put(libs, name, (k :> lib))
    ELSE Put(libs, name, Put(libs[name], k, lib))

RaceCall(t) ==
    /\ Running
    /\ t \notin DOMAIN tasks
    /\ \E n \in DOMAIN Loaders, singleton \in BOOLEAN, k \in Keys :
          tasks' = Put(tasks, t, NewTask(n, singleton, k))
    /\ UNCHANGED <<Loaders, types, Libraries, insts, nextId, last, reqs, probe,
                   LoadedUser>>

\* the lookup of the bucket and of the key in it
RaceCheck(t) ==
    /\ Running
    /\ t \in DOMAIN tasks /\ tasks[t].pc = "check"
    /\ tasks' = [tasks EXCEPT ![t] =
          IF tasks[t].name \notin DOMAIN Libraries
          THEN [@ EXCEPT !.pc = "init", !.seen = "nobucket"]
          ELSE IF tasks[t].key \in DOMAIN Libraries[tasks[t].name]
          THEN [@ EXCEPT !.pc = "done", !.seen = "hit",
                         !.lib = Libraries[tasks[t].name][tasks[t].key]]
          ELSE [@ EXCEPT !.pc = "init", !.seen = "bucket"]]
    /\ UNCHANGED <<Loaders, types, Libraries, insts, nextId, last, reqs, probe,
                   LoadedUser>>

\* load.Init(args...)
RaceInit(t) ==
    /\ Running
    /\ t \in DOMAIN tasks /\ tasks[t].pc = "init"
    /\ \E a \in Args, out \in InitOuts(Loaders[tasks[t].load]) :
        \E r \in {LoaderInit(insts, nextId, Loaders[tasks[t].load],
                             TaskSlot(t), a, out)} :
          /\ Installed(r.trace, nextId) => nextId <= MaxInst
          /\ insts' = r.insts
          /\ nextId' = IF Installed(r.trace, nextId) THEN nextId + 1
                       ELSE nextId
          /\ tasks' = [tasks EXCEPT ![t] =
                IF r.err # "none" THEN [@ EXCEPT !.pc = "done", !.err = r.err]
                ELSE [@ EXCEPT !.pc = "store", !.lib = r.ret]]
    /\ UNCHANGED <<Loaders, types, Libraries, last, reqs, probe, LoadedUser>>

\* another goroutine is at a statement that reads or writes the maps
Overlaps(t) ==
    \E u \in DOMAIN tasks \ {t} : tasks[u].pc \in {"check", "store"}

RaceStore(t) ==
    /\ Running
    /\ t \in DOMAIN tasks /\ tasks[t].pc = "store"
    /\ tasks[t].seen = "bucket" => tasks[t].name \in DOMAIN Libraries
    /\ \/ /\ Libraries' = StoreInst(Libraries, tasks[t].name, tasks[t].key,
                                    tasks[t].lib, tasks[t].seen)
          /\ tasks' = [tasks EXCEPT ![t].pc = "done"]
       \/ /\ Overlaps(t)
          /\ Libraries' = Libraries
          /\ tasks' = [tasks EXCEPT ![t].pc = "fatal"]
    /\ UNCHANGED <<Loaders, types, insts, nextId, last, reqs, probe,
                   LoadedUser>>

\* the teardown sweep once both calls have returned
RaceDestroy ==
    /\ DOMAIN tasks = Tasks
    /\ \A t \in Tasks : tasks[t].pc = "done"
    /\ DestroyStep

NextRace ==
    \/ \E t \in Tasks : RaceCall(t)
    \/ \E t \in Tasks : RaceCheck(t)
    \/ \E t \in Tasks : RaceInit(t)
    \/ \E t \in Tasks : RaceStore(t)
    \/ RaceDestroy

SpecRace == Init /\ [][NextRace]_vars

--------------------------------------------------------------------------
(* AuthN.GetAuthenticatonHandler: the handler of an installed AuthN.  A    *)
(* request goes through Validator.ValidateKey, Authenticator.Check and     *)
(* Authorizer.Check; ok is what the check returns (nil or an error).       *)

Reqs == {"r1", "r2", "r3"}

\* user is the identity Authenticator.Check resolved for the request,
\* checked the one that was handed to Authorizer.Check
NewReq == [pc |-> "validate", calls |-> << >>, status |-> "none",
           user |-> NoUser, checked |-> NoUser]

\* c.Status(fiber.StatusUnauthorized).JSON(...)
Unauthorized(q, check) ==
    [q EXCEPT !.pc = "done", !.calls = Append(@, <<check, FALSE>>),
              !.status = "unauthorized"]

ValidateKey(q, ok) ==
    IF ok THEN [q EXCEPT !.pc = "authenticate",
                         !.calls = Append(@, <<"validator", TRUE>>)]
    ELSE Unauthorized(q, "validator")

\* variant: the handler goes on after a failed authentication
AuthenticatorCheckIgnored(q, ok) ==
    [q EXCEPT !.pc = "authorize",
              !.calls = Append(@, <<"authenticator", ok>>)]

AuthenticatorCheck(q, ok) ==
    IF ok THEN [q EXCEPT !.pc = "authorize",
                         !.calls = Append(@, <<"authenticator", TRUE>>)]
    ELSE Unauthorized(q, "authenticator")

\* on success the handler returns c.Next()
AuthorizerCheck(q, ok) ==
    IF ok THEN [q EXCEPT !.pc = "done",
                         !.calls = Append(@, <<"authorizer", TRUE>>),
                         !.status = "next"]
    ELSE Unauthorized(q, "authorizer")

AuthFrame ==
    UNCHANGED <<Loaders, types, Libraries, insts, nextId, last, tasks, probe>>

HandlerEnter(r) ==
    /\ r \notin DOMAIN reqs
    /\ reqs' = Put(reqs, r, NewReq)
    /\ AuthFrame
    /\ UNCHANGED LoadedUser

Validate(r) ==
    /\ r \in DOMAIN reqs /\ reqs[r].pc = "validate"
    /\ \E ok \in BOOLEAN : reqs' = [reqs EXCEPT ![r] = ValidateKey(@, ok)]
    /\ AuthFrame
    /\ UNCHANGED LoadedUser

\* a.Authenticator.Loader.GetLoadedUser(): the user the wrapper holds
GetLoadedUser(q, loaded) == loaded

\* Authenticator.Check(c): the credentials of the request resolve to a user
\* of the store, which the wrapper keeps, or to none
Authenticate(r) ==
    /\ r \in DOMAIN reqs /\ reqs[r].pc = "authenticate"
    /\ \/ \E u \in Users :
             /\ reqs' = [reqs EXCEPT ![r] =
                            [AuthenticatorCheck(@, TRUE) EXCEPT !.user = u]]
             /\ LoadedUser' = u
       \/ /\ reqs' = [reqs EXCEPT ![r] = AuthenticatorCheck(@, FALSE)]
          /\ UNCHANGED LoadedUser
    /\ AuthFrame

Authorize(r) ==
    /\ r \in DOMAIN reqs /\ reqs[r].pc = "authorize"
    /\ \E ok \in BOOLEAN :
          reqs' = [reqs EXCEPT ![r] =
                     [AuthorizerCheck(@, ok) EXCEPT
                         !.checked = GetLoadedUser(reqs[r], LoadedUser)]]
    /\ AuthFrame
    /\ UNCHANGED LoadedUser

NextAuth ==
    \/ \E r \in Reqs : HandlerEnter(r)
    \/ \E r \in Reqs : Validate(r)
    \/ \E r \in Reqs : Authenticate(r)
    \/ \E r \in Reqs : Authorize(r)

SpecAuth == Init /\ [][NextAuth]_vars

--------------------------------------------------------------------------
(* AuthN.Install and the Init of the loaders, called with a list of        *)
(* positional arguments.  An argument is known by its dynamic type; env is *)
(* what the code the function calls does.  The result is "error" (an error *)
(* value is returned), "instance" (a library is returned; st is how far    *)
(* its lifecycle has got) or "panic" (index out of range, failed type      *)
(* assertion).  eff is what the call left behind: the fields it set and    *)
(* the calls it made on the registry.                                      *)

ArgKinds == {"AppContext", "AuthConfig", "KafkaConfig", "KafkaReceiver"}

ArgLists == UNION {[1..n -> ArgKinds] : n \in 0..MaxArgs}

\* args[i].(T): the index exists and the dynamic type is T
Asserts(args, i, kind) == i <= Len(args) /\ args[i] = kind

Outcome(res, st) == [res |-> res, st |-> st, eff |-> << >>]

\* what the validator, the store and NewAuthorization do
AuthNEnvs == {"ok", "novalidator", "typemismatch", "storefails", "notastore",
              "authzfails"}

\* context.Config.Auth.Store, and the registry Install finds: the one of
\* deps.APP_LIBRARIES has a loader for the yaml store only
AuthNStores == {"yaml", "db"}
AuthNLoaders == CreateLoaders("auth.store:yaml" :> "plain")

\* lName
AuthNStoreLoader(store) ==
    IF store = "yaml" THEN "auth.store:yaml" ELSE "auth.store:db"

\* the calls Install made on the registry, and the two fields of the AuthN
\* (nil in a NewAuthN()) it has set
AuthNOutcome(res, st, calls, authenticator, authorizer) ==
    [res |-> res, st |-> st,
     eff |-> [calls |-> calls, Authenticator |-> authenticator,
              Authorizer |-> authorizer]]

\* variant: the error of the store load is dropped
AuthNInstallStoreErrorDropped(args, env, store) ==
    LET lName == AuthNStoreLoader(store)
        found == <<<<"GetLoader", lName, TRUE>>>>
        load(ok) == found \o <<<<"LoadSingletonFromLoader", lName, ok>>>>
    IN  IF ~Asserts(args, 2, "AuthConfig")
        THEN AuthNOutcome("panic", "none", << >>, FALSE, FALSE)
        ELSE IF env = "novalidator"
        THEN AuthNOutcome("error", "none", << >>, FALSE, FALSE)
        ELSE IF env = "typemismatch"
        THEN AuthNOutcome("error", "none", << >>, FALSE, FALSE)
        ELSE IF ~Asserts(args, 1, "AppContext")
        THEN AuthNOutcome("panic", "none", << >>, FALSE, FALSE)
        ELSE IF ~GetLoader(AuthNLoaders, lName)
        THEN AuthNOutcome("error", "none", <<<<"GetLoader", lName, FALSE>>>>,
                          FALSE, FALSE)
        ELSE IF env = "storefails"
        THEN AuthNOutcome("instance", "installed", load(FALSE), TRUE, TRUE)
        ELSE IF env = "notastore"
        THEN AuthNOutcome("panic", "none", load(TRUE), FALSE, FALSE)
        ELSE IF env = "authzfails"
        THEN AuthNOutcome("error", "none", load(TRUE), TRUE, FALSE)
        ELSE AuthNOutcome("instance", "installed", load(TRUE), TRUE, TRUE)

AuthNInstall(args, env, store) ==
    LET lName == AuthNStoreLoader(store)
        found == <<<<"GetLoader", lName, TRUE>>>>
        load(ok) == found \o <<<<"LoadSingletonFromLoader", lName, ok>>>>
    IN  IF ~Asserts(args, 2, "AuthConfig")
        THEN AuthNOutcome("panic", "none", << >>, FALSE, FALSE)
        ELSE IF env = "novalidator"
        THEN AuthNOutcome("error", "none", << >>, FALSE, FALSE)
        ELSE IF env = "typemismatch"
        THEN AuthNOutcome("error", "none", << >>, FALSE, FALSE)
        ELSE IF ~Asserts(args, 1, "AppContext")
        THEN AuthNOutcome("panic", "none", << >>, FALSE, FALSE)
        ELSE IF ~GetLoader(AuthNLoaders, lName)
        THEN AuthNOutcome("error", "none", <<<<"GetLoader", lName, FALSE>>>>,
                          FALSE, FALSE)
        ELSE IF env = "storefails"
        THEN AuthNOutcome("error", "none", load(FALSE), FALSE, FALSE)
        ELSE IF env = "notastore"
        THEN AuthNOutcome("panic", "none", load(TRUE), FALSE, FALSE)
        ELSE IF env = "authzfails"
        THEN AuthNOutcome("error", "none", load(TRUE), TRUE, FALSE)
        ELSE AuthNOutcome("instance", "installed", load(TRUE), TRUE, TRUE)

\* what NewKafkaConsumer / NewKafkaProducer, Install and Connect do
KafkaEnvs == {"ok", "new", "install", "connect"}

\* the result of Connect is dropped
KafkaInit(env) ==
    IF env = "new" THEN Outcome("error", "none")
    ELSE IF env = "install" THEN Outcome("error", "none")
    ELSE IF env = "connect" THEN Outcome("instance", "installed")
    ELSE Outcome("instance", "connected")

KafkaConsumerInit(args, env) ==
    IF ~Asserts(args, 1, "KafkaConfig") THEN Outcome("panic", "none")
    ELSE IF ~Asserts(args, 2, "KafkaReceiver") THEN Outcome("panic", "none")
    ELSE KafkaInit(env)

KafkaProducerInit(args, env) ==
    IF ~Asserts(args, 1, "KafkaConfig") THEN Outcome("panic", "none")
    ELSE KafkaInit(env)

\* MongoLoader.Init on its own: no argument is looked at
MongoLoaderInit(args, env) ==
    LET r == LoaderInit(<< >>, 1, [name |-> "db:mongodb", kind |-> "mongo"],
                        <<"db:mongodb", DefaultKey>>, args, env)
    IN  IF r.err # "none" THEN Outcome("error", "none")
        ELSE Outcome("instance", r.insts[r.ret].st)

Probe(fn, args, env, o) ==
    /\ probe' = [fn |-> fn, args |-> args, env |-> env, res |-> o.res,
                 st |-> o.st, eff |-> o.eff]
    /\ UNCHANGED <<Loaders, types, Libraries, insts, nextId, last, tasks, reqs,
                   LoadedUser>>

AuthNInstallStep ==
    \E args \in ArgLists, env \in AuthNEnvs, store \in AuthNStores :
        Probe("AuthN.Install", args, [does |-> env, store |-> store],
              AuthNInstall(args, env, store))

KafkaConsumerInitStep ==
    \E args \in ArgLists, env \in KafkaEnvs :
        Probe("KafkaConsumerLoader.Init", args, env,
              KafkaConsumerInit(args, env))

KafkaProducerInitStep ==
    \E args \in ArgLists, env \in KafkaEnvs :
        Probe("KafkaProducerLoader.Init", args, env,
              KafkaProducerInit(args, env))

MongoLoaderInitStep ==
    \E args \in ArgLists, env \in {"ok", "install", "connect"} :
        Probe("MongoLoader.Init", args, env, MongoLoaderInit(args, env))

\* CreateLibraryManager on a map whose values are loader objects: two keys
\* may hold the same object, and an object has one name field
LoaderObjs == {"o1", "o2"}
LoaderKeys == {"db:mongodb", "pubsub"}

LoaderMaps ==
    UNION {[ks -> LoaderObjs] : ks \in (SUBSET LoaderKeys) \ {{}}}

\* the orders in which range meets the keys of the map
KeyOrders(map) ==
    {o \in [1..Cardinality(DOMAIN map) -> DOMAIN map] :
        \A i, j \in DOMAIN o : i # j => o[i] # o[j]}

\* variant: the loaders are stored as they come, SetName is not called
SetNamesSkipped(names, map, order) == names

\* for k, v := range loaders { v.SetName(k) }
RECURSIVE SetNames(_, _, _)
SetNames(names, map, order) ==
    IF order = << >> THEN names
    ELSE SetNames([names EXCEPT ![map[Head(order)]] = Head(order)], map,
                  Tail(order))

\* the manager: Loaders is the map that was given, each loader answering
\* Name() with the name field of its object; Libraries is empty
CreateLibraryManager(map, order) ==
    LET names == SetNames([o \in LoaderObjs |-> ""], map, order)
    IN  [Loaders |-> [k \in DOMAIN map |->
                        [name |-> names[map[k]], kind |-> "mongo"]],
         Libraries |-> InitLibraries]

CreateLibraryManagerStep ==
    \E map \in LoaderMaps : \E order \in KeyOrders(map) :
        Probe("CreateLibraryManager", map, order,
              [res |-> "instance", st |-> "none",
               eff |-> CreateLibraryManager(map, order)])

\* CheckSingleLoader(name, loaders): the loaders of a list, each a value of
\* a concrete type or a pointer to one
LoaderValues ==
    { [type |-> "MongoLoader", ptr |-> TRUE],
      [type |-> "MongoLoader", ptr |-> FALSE],
      [type |-> "KafkaConsumerLoader", ptr |-> TRUE] }

LoaderLists == UNION {[1..n -> LoaderValues] : n \in 0..MaxLoaders}

\* reflect.TypeOf(loader), Elem() of a pointer, Name()
LoaderTypeName(loader) == loader.type

\* the loop: list is the names seen, which nothing is appended to;
\* logger.Fatal ends the process
RECURSIVE CheckLoop(_, _)
CheckLoop(st, loaders) ==
    IF loaders = << >> THEN st
    ELSE IF LoaderTypeName(Head(loaders)) \in st.list
    THEN [st EXCEPT !.fatal = TRUE]
    ELSE CheckLoop([st EXCEPT !.newLoaders = Append(@, Head(loaders))],
                   Tail(loaders))

CheckSingleLoader(loaders) ==
    CheckLoop([newLoaders |-> << >>, list |-> {}, fatal |-> FALSE], loaders)

CheckSingleLoaderStep ==
    \E loaders \in LoaderLists :
        \E r \in {CheckSingleLoader(loaders)} :
            Probe("CheckSingleLoader", loaders, "none",
                  [res |-> IF r.fatal THEN "fatal" ELSE "slice",
                   st |-> "none", eff |-> r.newLoaders])

NextInit ==
    \/ CreateLibraryManagerStep
    \/ CheckSingleLoaderStep
    \/ AuthNInstallStep
    \/ KafkaConsumerInitStep
    \/ KafkaProducerInitStep
    \/ MongoLoaderInitStep

SpecInit == Init /\ [][NextInit]_vars

--------------------------------------------------------------------------
(* AppContext.Start: the application asks the registry for the singletons *)
(* of the library kinds its configuration names.                          *)

\* the kinds in the order of the three if-blocks
StartKinds == <<"Database", "Redis", "PubSub">>

\* the registries Start runs against: every loader registered, and the one
\* of deps.APP_LIBRARIES, which registers no "redis"
StartPrograms ==
    { [loaders |-> ("db:mongodb" :> "mongo" @@ "redis" :> "plain"
                    @@ "pubsub" :> "plain"), types |-> {}],
      [loaders |-> ("db:mongodb" :> "mongo" @@ "pubsub" :> "plain"),
       types |-> {}] }

\* a.Config: the driver of a database whose Host is set ("" when it is
\* not), and whether Redis and Pub/Sub are filled in
StartConfigs ==
    [Database : {"", "mongodb", "postgres"}, Redis : BOOLEAN, PubSub : BOOLEAN]

StartConfigured(cfg, kind) ==
    IF kind = "Database" THEN cfg.Database # "" ELSE cfg[kind]

\* lName
StartLoaderName(cfg, kind) ==
    IF kind = "Database"
    THEN (IF cfg.Database = "mongodb" THEN "db:mongodb" ELSE "db:postgres")
    ELSE IF kind = "Redis" THEN "redis" ELSE "pubsub"

\* the arguments of LoadSingletonFromLoader in the block of a kind
StartArgs(kind) == <<"Context", "Database">>

\* what the library code of each kind does on Init: Start returns at the
\* first failure, so at most one kind, a configured one, is made to fail
StartOuts(cfg) ==
    {o \in [Database : {"ok", "install", "connect"}, Redis : {"ok", "install"},
            PubSub : {"ok", "install"}] :
        \A k1, k2 \in {"Database", "Redis", "PubSub"} :
            /\ o[k1] # "ok" => StartConfigured(cfg, k1)
            /\ (o[k1] # "ok" /\ o[k2] # "ok") => k1 = k2}

StartState(libs, is, id) ==
    [libs |-> libs, insts |-> is, id |-> id, err |-> "none", trace |-> << >>,
     inits |-> 0, log |-> << >>]

\* variant: an error is logged and the next kind is tried
StartBlockKeepsGoing(s, loaders, cfg, kind, out) ==
    LET lName == StartLoaderName(cfg, kind)
        r == LoadSingletonFromLoader(s.libs, s.insts, s.id, loaders[lName],
                                     StartArgs(kind), out)
    IN  IF ~StartConfigured(cfg, kind) THEN s
        ELSE IF ~GetLoader(loaders, lName)
        THEN [s EXCEPT !.err = "noloader",
                       !.log = Append(@, <<kind, "GetLoader", lName, FALSE>>)]
        ELSE [libs |-> r.libs, insts |-> r.insts,
              id |-> IF Installed(r.trace, s.id) THEN s.id + 1 ELSE s.id,
              err |-> r.err, trace |-> s.trace \o r.trace,
              inits |-> s.inits + r.inits,
              log |-> s.log \o <<<<kind, "GetLoader", lName, TRUE>>,
                                 <<kind, "Load", lName, StartArgs(kind),
                                   r.err>>>>]

\* one if-block of Start; s.err # "none" is a return in an earlier block
StartBlock(s, loaders, cfg, kind, out) ==
    LET lName == StartLoaderName(cfg, kind)
        r == LoadSingletonFromLoader(s.libs, s.insts, s.id, loaders[lName],
                                     StartArgs(kind), out)
    IN  IF s.err # "none" THEN s
        ELSE IF ~StartConfigured(cfg, kind) THEN s
        ELSE IF ~GetLoader(loaders, lName)
        THEN [s EXCEPT !.err = "noloader",
                       !.log = Append(@, <<kind, "GetLoader", lName, FALSE>>)]
        ELSE [libs |-> r.libs, insts |-> r.insts,
              id |-> IF Installed(r.trace, s.id) THEN s.id + 1 ELSE s.id,
              err |-> r.err, trace |-> s.trace \o r.trace,
              inits |-> s.inits + r.inits,
              log |-> s.log \o <<<<kind, "GetLoader", lName, TRUE>>,
                                 <<kind, "Load", lName, StartArgs(kind),
                                   r.err>>>>]

Start(libs, is, id, loaders, cfg, outs) ==
    LET s1 == StartBlock(StartState(libs, is, id), loaders, cfg, "Database",
                         outs.Database)
        s2 == StartBlock(s1, loaders, cfg, "Redis", outs.Redis)
    IN  StartBlock(s2, loaders, cfg, "PubSub", outs.PubSub)

InitStart ==
    /\ \E p \in StartPrograms :
          /\ Loaders = CreateLoaders(p.loaders)
          /\ types = p.types
    /\ Libraries = InitLibraries
    /\ insts = << >>
    /\ nextId = 1
    /\ last = NoOp
    /\ tasks = NoTasks
    /\ reqs = NoReqs
    /\ probe = NoProbe
    /\ LoadedUser = NoUser

StartStep ==
    \E cfg \in StartConfigs : \E outs \in StartOuts(cfg) :
      \E s \in {Start(Libraries, insts, nextId, Loaders, cfg, outs)} :
        /\ s.id <= MaxInst + 1
        /\ UNCHANGED <<Loaders, types, tasks, reqs, LoadedUser>>
        /\ Libraries' = s.libs
        /\ insts' = s.insts
        /\ nextId' = s.id
        /\ last' = [op |-> "Start", name |-> "", key |-> NilKey, args |-> "",
                    ret |-> NoInst, err |-> s.err, trace |-> s.trace,
                    inits |-> s.inits, before |-> Libraries, pre |-> NoRec]
        /\ probe' = [fn |-> "Start", args |-> cfg, env |-> outs,
                     res |-> IF s.err = "none" THEN "nil" ELSE "error",
                     st |-> "none", eff |-> s.log]

\* the shutdown sweep of the application: the record of its Start ends
\* with it
ShutdownStep ==
    \E order \in RangeOrders(Libraries), outs \in DestroyOuts(Libraries, insts) :
        \E r \in {Destroy(Libraries, insts, order, outs)} :
            /\ UNCHANGED <<Loaders, types, nextId, tasks, reqs, LoadedUser>>
            /\ Libraries' = r.libs
            /\ insts' = r.insts
            /\ last' = [op |-> "Destroy", name |-> "", key |-> NilKey,
                        args |-> "", ret |-> r.ret, err |-> r.err,
                        trace |-> r.trace, inits |-> r.inits,
                        before |-> Libraries, pre |-> NoRec]
            /\ probe' = NoProbe

\* Start, and the shutdown that empties the cache again
NextStart ==
    \/ StartStep
    \/ ShutdownStep

SpecStart == InitStart /\ [][NextStart]_vars

--------------------------------------------------------------------------
(* helper.MarshalDbMap and helper.UnmarshalDbMap.  A struct type is the    *)
(* sequence of its exported fields: the name in the db tag ("" without a   *)
(* tag, "-", or a name of its own, here the index of the field), the       *)
(* omitempty option, and whether the field is a pointer.  A value is nil   *)
(* or has a content, 0 being the zero value of the field's type.           *)

DbTags == {"", "-", "name"}
DbFields == [tag : DbTags, omitempty : BOOLEAN, ptr : BOOLEAN]
DbTypes == UNION {[1..n -> DbFields] : n \in 1..MaxFields}

DbNil == [nil |-> TRUE, val |-> 0]
DbVal(v) == [nil |-> FALSE, val |-> v]
DbContents == {0, 1}

\* the values of a struct type
DbStructs(typ) ==
    {x \in [DOMAIN typ -> {DbNil} \cup {DbVal(v) : v \in DbContents}] :
        \A i \in DOMAIN typ : x[i].nil => typ[i].ptr}

\* the zero value of a struct type
DbZero(typ) ==
    [i \in DOMAIN typ |-> IF typ[i].ptr THEN DbNil ELSE DbVal(0)]

\* one pass of the loop of MarshalDbMap: field i
MarshalField(result, f, i, fieldVal) ==
    IF f.tag = "" \/ f.tag = "-" THEN result
    ELSE IF f.ptr /\ fieldVal.nil
    THEN (IF ~f.omitempty THEN Put(result, i, DbNil) ELSE result)
    ELSE IF f.omitempty /\ fieldVal.val = 0 THEN result
    ELSE Put(result, i, DbVal(fieldVal.val))

RECURSIVE MarshalFields(_, _, _, _)
MarshalFields(result, typ, x, i) ==
    IF i > Len(typ) THEN result
    ELSE MarshalFields(MarshalField(result, typ[i], i, x[i]), typ, x, i + 1)

MarshalDbMap(typ, x) == MarshalFields(<< >>, typ, x, 1)

\* one pass of the loop of UnmarshalDbMap: field i
UnmarshalField(out, data, f, i) ==
    IF f.tag = "" \/ f.tag = "-" THEN out
    ELSE IF i \notin DOMAIN data THEN out
    ELSE IF data[i].nil THEN out
    ELSE [out EXCEPT ![i] = DbVal(data[i].val)]

RECURSIVE UnmarshalFields(_, _, _, _)
UnmarshalFields(out, data, typ, i) ==
    IF i > Len(typ) THEN out
    ELSE UnmarshalFields(UnmarshalField(out, data, typ[i], i), data, typ,
                         i + 1)

UnmarshalDbMap(data, typ, out) == UnmarshalFields(out, data, typ, 1)

\* a struct, its map, and the zero struct the map is read back into
InitDb ==
    /\ \E p \in Programs :
          /\ Loaders = CreateLoaders(p.loaders)
          /\ types = p.types
    /\ Libraries = InitLibraries
    /\ insts = << >>
    /\ nextId = 1
    /\ last = NoOp
    /\ tasks = NoTasks
    /\ reqs = NoReqs
    /\ LoadedUser = NoUser
    /\ \E typ \in DbTypes : \E x \in DbStructs(typ) :
          probe = [fn |-> "struct", args |-> [typ |-> typ, x |-> x],
                   env |-> << >>, res |-> "none", st |-> "none",
                   eff |-> << >>]

MarshalDbMapStep ==
    /\ probe.fn = "struct"
    /\ probe' = [probe EXCEPT !.fn = "MarshalDbMap", !.res = "map",
                              !.env = MarshalDbMap(probe.args.typ,
                                                   probe.args.x)]
    /\ UNCHANGED <<Loaders, types, Libraries, insts, nextId, last, tasks, reqs,
                   LoadedUser>>

UnmarshalDbMapStep ==
    /\ probe.fn = "MarshalDbMap"
    /\ probe' = [probe EXCEPT !.fn = "UnmarshalDbMap", !.res = "nil",
                              !.eff = UnmarshalDbMap(probe.env, probe.args.typ,
                                                     DbZero(probe.args.typ))]
    /\ UNCHANGED <<Loaders, types, Libraries, insts, nextId, last, tasks, reqs,
                   LoadedUser>>

NextDb ==
    \/ MarshalDbMapStep
    \/ UnmarshalDbMapStep

SpecDb == InitDb /\ [][NextDb]_vars

--------------------------------------------------------------------------
(* Vocabulary of the properties *)

LoaderLoads == {"LoadSingletonFromLoader", "LoadInstanceFromLoader"}
TypeLoads == {"LoadSingleton", "LoadInstance"}
Loads == LoaderLoads \cup TypeLoads
Unloads == {"UnloadSingleton", "UnloadInstance"}
CacheReads == {"GetSingletonInstance", "GetInstance", "GetLibrary"}

\* the compound key the last operation addressed
LastSlot == <<last.name, last.key>>
Cached(libs, s) == s \in Slots(libs)

\* the lifecycle calls an operation made on one object, in order
CallsOn(trace, id) ==
    LET Mine(c) == c[1] = id IN SelectSeq(trace, Mine)
\* the same without the object: <<method, ok>>
Methods(trace, id) ==
    LET c == CallsOn(trace, id)
    IN  [i \in 1..Len(c) |-> <<c[i][2], c[i][3]>>]
Failed(trace, m) ==
    \E i \in 1..Len(trace) : trace[i][2] = m /\ ~trace[i][3]

\* the objects that were installed and have been uninstalled since
Gone == (1..(nextId - 1)) \ DOMAIN insts

--------------------------------------------------------------------------
\* C1: a get-or-create through a loader that follows a successful
\* get-or-create of the same compound key returns the same instance without
\* an error, calls Init not at all (so Init ran once for the two calls when
\* the first one missed), makes no lifecycle call and leaves cache and heap
\* as they are, whatever arguments either call passes.
C1_SecondLoadReturnsSame ==
    [][ ( /\ last.op \in LoaderLoads /\ last.err = "none"
          /\ last'.op \in LoaderLoads
          /\ last'.name = last.name /\ last'.key = last.key )
        => ( /\ last'.err = "none"
             /\ last'.ret = last.ret
             /\ last'.inits = 0
             /\ last.inits = (IF Cached(last.before, LastSlot) THEN 0 ELSE 1)
             /\ last'.trace = << >>
             /\ Libraries' = Libraries
             /\ insts' = insts ) ]_vars

\* a cache hit through a loader
C1_Witness ==
    /\ last.op \in LoaderLoads
    /\ Cached(last.before, LastSlot)
    /\ last.err = "none"
    /\ last.ret = At(last.before, LastSlot)
    /\ last.inits = 0

\* C2: a get-or-create whose Init fails returns the error and no instance
\* and leaves the cache exactly as it was (no entry, no new bucket); the
\* next get-or-create of the same compound key calls Init again.
C2_FailedInitLeavesNoEntry ==
    [][ /\ ( last'.op \in LoaderLoads /\ last'.err \in {"install", "connect"} )
           => ( /\ last'.ret = NoInst
                /\ last'.inits = 1
                /\ Libraries' = Libraries
                /\ ~Cached(Libraries', <<last'.name, last'.key>>) )
        /\ ( /\ last.op \in LoaderLoads
             /\ last.err \in {"install", "connect"}
             /\ last'.op \in LoaderLoads
             /\ last'.name = last.name /\ last'.key = last.key )
           => last'.inits = 1 ]_vars

\* Init ran again for a compound key for which an earlier Init had failed
\* in Connect: the object of the failed Init is still on the heap
C2_Witness ==
    /\ last.op \in LoaderLoads
    /\ last.err = "none"
    /\ last.inits = 1
    /\ \E id \in DOMAIN insts :
          /\ id # last.ret
          /\ insts[id].via = "loader"
          /\ insts[id].slot = LastSlot

\* C3: an explicit unload of a compound key that is not cached returns the
\* not-found error, makes no lifecycle call and leaves the cache as it is.
C3_UnloadOfMissingKey ==
    ( last.op \in Unloads /\ ~Cached(last.before, LastSlot) )
    => ( /\ last.err = "notfound"
         /\ last.ret = NoInst
         /\ last.trace = << >>
         /\ Libraries = last.before )

\* the bucket is there, the key is not
C3_Witness ==
    /\ last.op = "UnloadInstance"
    /\ last.name \in DOMAIN last.before
    /\ last.key \notin DOMAIN last.before[last.name]
    /\ last.err = "notfound"

\* C4: an explicit unload of a cached instance that is no Connector calls
\* Uninstall on it once and nothing else; when that succeeds the instance is
\* returned and is in no slot of the cache any more, and a get-or-create of
\* the same compound key that follows constructs an object that was not
\* there before.
C4_UnloadThenFreshInstance ==
    [][ /\ ( /\ last'.op \in Unloads
             /\ Cached(Libraries, <<last'.name, last'.key>>)
             /\ ~last'.pre.conn )
           => LET id == At(Libraries, <<last'.name, last'.key>>)
              IN  /\ last'.err \in {"none", "uninstall"}
                  /\ last'.trace = <<<<id, "Uninstall", last'.err = "none">>>>
                  /\ last'.err = "none" =>
                        /\ last'.ret = id
                        /\ \A s \in Slots(Libraries') : At(Libraries', s) # id
                        /\ ~Cached(Libraries', <<last'.name, last'.key>>)
        /\ ( /\ last.op \in Unloads /\ last.err = "none" /\ ~last.pre.conn
             /\ last'.op \in Loads /\ last'.err = "none"
             /\ last'.name = last.name /\ last'.key = last.key )
           => ( /\ last'.ret # last.ret
                /\ last'.ret \notin DOMAIN insts
                /\ last'.trace = <<<<last'.ret, "Install", TRUE>>>>
                /\ At(Libraries', <<last'.name, last'.key>>) = last'.ret )
      ]_vars

\* an instance that a loader had constructed was unloaded
C4_Witness ==
    /\ last.op \in Unloads
    /\ last.err = "none"
    /\ last.pre.via = "loader"
    /\ ~last.pre.conn
    /\ ~Cached(Libraries, LastSlot)

\* C5: when Disconnect fails in an explicit unload, the unload returns an
\* error, Uninstall is not called, and the instance stays cached under its
\* compound key.
C5_DisconnectErrorKeepsInstance ==
    ( last.op \in Unloads /\ Failed(last.trace, "Disconnect") )
    => ( /\ last.err = "disconnect"
         /\ last.ret = NoInst
         /\ last.pre.conn
         /\ last.trace = <<<<At(last.before, LastSlot), "Disconnect", FALSE>>>>
         /\ Libraries = last.before
         /\ At(last.before, LastSlot) \in DOMAIN insts )

C5_Witness ==
    /\ last.op \in Unloads
    /\ last.err = "disconnect"
    /\ Cached(Libraries, LastSlot)

\* C6: when Uninstall fails in an explicit unload, the error is returned and
\* the cache is as it was; a second unload of the compound key finds the
\* instance and, when it succeeds, removes the entry.
C6_UninstallErrorKeepsEntry ==
    [][ /\ ( last'.op \in Unloads /\ Failed(last'.trace, "Uninstall") )
           => ( /\ last'.err = "uninstall"
                /\ last'.ret = NoInst
                /\ Libraries' = Libraries
                /\ Cached(Libraries', <<last'.name, last'.key>>) )
        /\ ( /\ last.op \in Unloads /\ last.err = "uninstall"
             /\ last'.op \in Unloads
             /\ last'.name = last.name /\ last'.key = last.key )
           => ( /\ last'.err \in {"none", "disconnect", "uninstall"}
                /\ last'.err = "none" =>
                      /\ last'.ret = At(Libraries, LastSlot)
                      /\ ~Cached(Libraries', LastSlot) ) ]_vars

C6_Witness ==
    /\ last.op \in Unloads
    /\ last.err = "uninstall"
    /\ Cached(Libraries, LastSlot)
    /\ Libraries = last.before

\* C7: Destroy returns no error and makes a teardown call on every instance
\* that was cached when it started, whichever of them fail.
C7_DestroyAttemptsEveryInstance ==
    last.op = "Destroy"
    => ( /\ last.err = "none"
         /\ \A s \in Slots(last.before) :
               CallsOn(last.trace, At(last.before, s)) # << >> )

\* a teardown call failed and the sweep went on to another instance
C7_Witness ==
    /\ last.op = "Destroy"
    /\ last.err = "none"
    /\ \E i, j \in 1..Len(last.trace) :
          /\ i < j
          /\ ~last.trace[i][3]
          /\ last.trace[j][1] # last.trace[i][1]

\* C8 as stated: in Destroy every instance that was cached gets Uninstall,
\* after its Disconnect when it is a Connector, also when that Disconnect
\* returned an error.
C8_UninstallOnEveryInstance ==
    last.op = "Destroy"
    => \A s \in Slots(last.before) :
          \E i \in 1..Len(last.trace) :
             /\ last.trace[i][1] = At(last.before, s)
             /\ last.trace[i][2] = "Uninstall"

\* C8 amended: in Destroy an instance that is no Connector gets Uninstall; a
\* Connector gets Disconnect first and Uninstall after it only when the
\* Disconnect succeeded: an instance whose Disconnect returned an error gets
\* no Uninstall and stays cached.
C8_UninstallUnlessDisconnectFailed ==
    [][ last'.op = "Destroy"
        => \A s \in Slots(Libraries) :
              LET id == At(Libraries, s)
                  c  == Methods(last'.trace, id)
              IN  IF insts[id].conn
                  THEN \/ /\ c = <<<<"Disconnect", FALSE>>>>
                          /\ Cached(Libraries', s)
                          /\ At(Libraries', s) = id
                       \/ \E ok \in BOOLEAN :
                             c = <<<<"Disconnect", TRUE>>, <<"Uninstall", ok>>>>
                  ELSE \E ok \in BOOLEAN : c = <<<<"Uninstall", ok>>>> ]_vars

\* a Destroy in which one Disconnect failed and another instance was
\* uninstalled
C8_Witness ==
    /\ last.op = "Destroy"
    /\ \E i, j \in 1..Len(last.trace) :
          /\ last.trace[i][2] = "Disconnect" /\ ~last.trace[i][3]
          /\ last.trace[j][2] = "Uninstall"
          /\ last.trace[j][1] # last.trace[i][1]
    /\ \E s \in Slots(Libraries) :
          Methods(last.trace, At(Libraries, s)) = <<<<"Disconnect", FALSE>>>>

\* C9 as stated: two keyed instances of one loader name are distinct, each
\* is found by GetInstance under its own key, and UnloadInstance can unload
\* each of them and leaves the other one cached and untouched.
C9_KeyedInstancesUnloadable ==
    \A n \in DOMAIN Loaders, k1, k2 \in Keys :
       ( /\ k1 # k2
         /\ Cached(Libraries, <<n, k1>>) /\ Cached(Libraries, <<n, k2>>)
         /\ insts[Libraries[n][k1]].via = "loader"
         /\ insts[Libraries[n][k2]].via = "loader" )
       => /\ Libraries[n][k1] # Libraries[n][k2]
          /\ GetInstance(Libraries, n, k1) =
                [ret |-> Libraries[n][k1], found |-> TRUE, panic |-> FALSE]
          /\ \E t \in Types :
                LET r == UnloadInstance(Libraries, insts, t, k1, "ok")
                IN  /\ r.err = "none"
                    /\ r.ret = Libraries[n][k1]
                    /\ Cached(r.libs, <<n, k2>>)
                    /\ r.libs[n][k2] = Libraries[n][k2]
                    /\ r.insts[Libraries[n][k2]] = insts[Libraries[n][k2]]

\* C10 as stated: for every compound key at most one object that was
\* installed for it has not been uninstalled.
C10_AtMostOneLiveInstance ==
    \A id1, id2 \in DOMAIN insts :
       insts[id1].slot = insts[id2].slot => id1 = id2

\* C11 as stated: the type-keyed cache and the loader-keyed cache never
\* merge: a load by type returns an object that was constructed by type, a
\* load through a loader an object that the loader constructed, and an
\* unload by type removes only an object that was constructed by type.
C11_CachesNeverMerge ==
    /\ ( last.op \in TypeLoads /\ last.err = "none" )
          => insts[last.ret].via = "type"
    /\ ( last.op \in LoaderLoads /\ last.err = "none" )
          => insts[last.ret].via = "loader"
    /\ ( last.op \in Unloads /\ last.err = "none" )
          => last.pre.via = "type"

\* C12 as stated: an instance that a load by type constructed, cached and
\* returned had Install, and Connect when its type is a Connector, called
\* with success, for the first instance of the type and for a further one.
C12_TypeLoadedIsConnected ==
    ( /\ last.op \in TypeLoads /\ last.err = "none" /\ last.trace # << >>
      /\ insts[last.ret].conn )
    => ( /\ last.trace = << <<last.ret, "Install", TRUE>>,
                            <<last.ret, "Connect", TRUE>> >>
         /\ insts[last.ret].st = "connected" )

\* C13 as stated: a read operation (GetLoader, GetSingletonInstance,
\* GetInstance, GetLibrary) makes no lifecycle call and leaves the cache as
\* it is; a cache read answers not-found exactly when the bucket or the key
\* in it is absent and returns the cached instance otherwise; GetLoader
\* answers not-found exactly when the name is no key of Loaders.
C13_ReadsArePureLookups ==
    /\ last.op \in CacheReads
          => ( /\ last.trace = << >>
               /\ Libraries = last.before
               /\ last.err = (IF Cached(last.before, LastSlot) THEN "none"
                              ELSE "miss")
               /\ last.ret = (IF Cached(last.before, LastSlot)
                              THEN At(last.before, LastSlot) ELSE NoInst) )
    /\ last.op = "GetLoader"
          => ( /\ last.trace = << >>
               /\ Libraries = last.before
               /\ last.err = (IF last.name \in DOMAIN Loaders THEN "none"
                              ELSE "miss") )

\* C14: with two goroutines inside the get-or-create of one compound key,
\* a store that completes puts its own instance under the key, whatever
\* was there (last write wins); an instance that the other goroutine
\* constructed for the key is then in no slot of the cache; and an object
\* that is in no slot is touched by nothing that follows, the teardown
\* sweep included.
C14_RaceLosesAnInstance ==
    [][ /\ \A t \in DOMAIN tasks :
              ( tasks[t].pc = "store" /\ tasks'[t].pc = "done" )
              => /\ Cached(Libraries', TaskSlot(t))
                 /\ At(Libraries', TaskSlot(t)) = tasks[t].lib
                 /\ \A u \in DOMAIN tasks \ {t} :
                       ( /\ tasks[u].pc = "done"
                         /\ tasks[u].seen # "hit"
                         /\ tasks[u].lib # NoInst
                         /\ TaskSlot(u) = TaskSlot(t) )
                       => \A s \in Slots(Libraries') :
                             At(Libraries', s) # tasks[u].lib
        /\ \A id \in DOMAIN insts :
              ( \A s \in Slots(Libraries) : At(Libraries, s) # id )
              => ( id \in DOMAIN insts' /\ insts'[id] = insts[id] ) ]_vars

\* both goroutines missed, Init ran twice for the key, the sweep has run:
\* it tore down the instance stored last and made no call on the other one,
\* which is still installed and connected
C14_Witness ==
    \E t, u \in DOMAIN tasks :
       /\ t # u
       /\ tasks[t].pc = "done" /\ tasks[u].pc = "done"
       /\ TaskSlot(t) = TaskSlot(u)
       /\ tasks[t].seen # "hit" /\ tasks[u].seen # "hit"
       /\ tasks[t].lib # NoInst /\ tasks[u].lib # NoInst
       /\ tasks[t].lib # tasks[u].lib
       /\ last.op = "Destroy"
       /\ At(last.before, TaskSlot(t)) = tasks[t].lib
       /\ CallsOn(last.trace, tasks[t].lib) # << >>
       /\ CallsOn(last.trace, tasks[u].lib) = << >>
       /\ tasks[u].lib \in DOMAIN insts
       /\ Libraries = << >>

\* C15: for every request the checks the handler has run are a prefix of
\* validator, authenticator, authorizer; every check but the last one run
\* succeeded; the response is unauthorized exactly when the last check run
\* failed, and then the handler is done; the request is passed on exactly
\* when all three checks ran and succeeded.
C15_ChecksInOrderStopAtFirstFailure ==
    \A r \in DOMAIN reqs :
       LET c     == reqs[r].calls
           order == <<"validator", "authenticator", "authorizer">>
       IN  /\ Len(c) <= 3
           /\ \A i \in 1..Len(c) : c[i][1] = order[i]
           /\ \A i \in 1..(Len(c) - 1) : c[i][2]
           /\ reqs[r].status = "unauthorized"
                 <=> ( c # << >> /\ ~c[Len(c)][2] )
           /\ reqs[r].status = "next"
                 <=> ( Len(c) = 3 /\ \A i \in 1..3 : c[i][2] )
           /\ reqs[r].status # "none" <=> reqs[r].pc = "done"

\* a request stopped at the authenticator, another one was passed on
C15_Witness ==
    \E r1, r2 \in DOMAIN reqs :
       /\ reqs[r1].calls = << <<"validator", TRUE>>,
                              <<"authenticator", FALSE>> >>
       /\ reqs[r1].status = "unauthorized"
       /\ reqs[r1].pc = "done"
       /\ reqs[r2].status = "next"

C17_BadArgumentsGiveAnError ==
    probe.fn \in {"AuthN.Install", "KafkaConsumerLoader.Init",
                  "KafkaProducerLoader.Init"}
    => probe.res # "panic"

\* C18 as stated: a loader's Init called with the arguments it expects
\* returns an error and no instance whenever the constructor, Install or
\* Connect failed, and an instance it returns is installed and, being
\* connection-bearing, connected.
C18_InitReturnsReadyOrError ==
    ( /\ probe.fn \in {"KafkaConsumerLoader.Init",
                       "KafkaProducerLoader.Init", "MongoLoader.Init"}
      /\ probe.res # "panic" )
    => ( /\ probe.env # "ok" => probe.res = "error"
         /\ probe.res = "instance" => probe.st = "connected" )

\* C19 as stated: every instance that the loader path constructed is cached
\* in a bucket whose name is a key of Loaders.
C19_LoaderBucketsAreRegistered ==
    \A s \in Slots(Libraries) :
       insts[At(Libraries, s)].via = "loader" => s[1] \in DOMAIN Loaders

\* C20: in every operation of the registry, Connect is called on an object
\* only right after its Install succeeded; Disconnect only on an instance
\* that is in the cache; Uninstall on a Connector only right after its
\* Disconnect succeeded; and an instance leaves its slot of the cache only
\* in an operation in which its Uninstall succeeded.
C20_LifecycleCallsInOrder ==
    [][ LET tr == last'.trace
        IN  /\ \A i \in 1..Len(tr) :
                  LET id == tr[i][1]
                  IN  /\ tr[i][2] = "Connect"
                         => ( i > 1 /\ tr[i - 1] = <<id, "Install", TRUE>> )
                      /\ tr[i][2] = "Disconnect"
                         => \E s \in Slots(Libraries) : At(Libraries, s) = id
                      /\ ( tr[i][2] = "Uninstall" /\ insts[id].conn )
                         => ( i > 1 /\ tr[i - 1] = <<id, "Disconnect", TRUE>> )
            /\ \A s \in Slots(Libraries) :
                  ( ~Cached(Libraries', s)
                    \/ At(Libraries', s) # At(Libraries, s) )
                  => \E i \in 1..Len(tr) :
                        tr[i] = <<At(Libraries, s), "Uninstall", TRUE>> ]_vars

\* a Connector that was installed and connected by a load went through
\* Disconnect and Uninstall in an unload and left the cache
C20_Witness ==
    /\ last.op \in Unloads
    /\ last.err = "none"
    /\ last.pre.conn
    /\ last.pre.st = "connected"
    /\ last.trace = << <<last.ret, "Disconnect", TRUE>>,
                       <<last.ret, "Uninstall", TRUE>> >>
    /\ ~Cached(Libraries, LastSlot)

\* C21: an instance that was uninstalled is returned by no read of the
\* cache and by no load, and gets no lifecycle call after the Uninstall
\* that succeeded; a load that constructs makes an object that did not
\* exist before.
C21_UninstalledNeverComesBack ==
    /\ \A n \in BucketNames, k \in Keys :
          /\ GetInstance(Libraries, n, k).ret \notin Gone
          /\ GetSingletonInstance(Libraries, n).ret \notin Gone
    /\ ( last.op \in Loads /\ last.ret # NoInst ) => last.ret \notin Gone
    /\ \A i \in 1..Len(last.trace) :
          /\ last.trace[i][1] \in Gone
                => \E j \in i..Len(last.trace) :
                      last.trace[j] = <<last.trace[i][1], "Uninstall", TRUE>>
          /\ last.trace[i][2] = "Uninstall" /\ last.trace[i][3]
                => \A j \in (i + 1)..Len(last.trace) :
                      last.trace[j][1] # last.trace[i][1]
    /\ ( last.op \in Loads /\ last.err = "none" /\ last.trace # << >> )
          => ( /\ last.ret = nextId - 1
               /\ last.trace[1] = <<last.ret, "Install", TRUE>>
               /\ last.pre = NoRec )

\* after an instance was uninstalled, a load constructed a new object, the
\* only one that is cached
C21_Witness ==
    /\ Gone # {}
    /\ last.op \in Loads
    /\ last.err = "none"
    /\ last.ret \notin Gone
    /\ last.trace # << >>
    /\ last.before = << >>
    /\ \A s \in Slots(Libraries) : s = LastSlot

\* C22: the cache has no empty bucket.
C22_NoEmptyBucket ==
    \A n \in DOMAIN Libraries : DOMAIN Libraries[n] # {}

\* an unload removed the last instance of a bucket and the bucket with it,
\* and left another bucket alone
C22_Witness ==
    /\ last.op \in Unloads
    /\ last.err = "none"
    /\ DOMAIN last.before[last.name] = {last.key}
    /\ last.name \notin DOMAIN Libraries
    /\ Libraries # << >>

\* C23 as stated: after CreateLibraryManager(loaders) the cache is empty,
\* and for every key k of the map GetLoader(k) finds a loader whose Name()
\* is k, so that LoadSingletonFromLoader on it caches in the bucket k.
C23_EveryLoaderNamedByItsKey ==
    probe.fn = "CreateLibraryManager"
    => LET lm == probe.eff
       IN  /\ lm.Libraries = << >>
           /\ DOMAIN lm.Loaders = DOMAIN probe.args
           /\ \A k \in DOMAIN probe.args :
                 /\ GetLoader(lm.Loaders, k)
                 /\ lm.Loaders[k].name = k
                 /\ DOMAIN LoadSingletonFromLoader(lm.Libraries, << >>, 1,
                              lm.Loaders[k], "cfgA", "ok").libs = {k}

\* C23 amended: the same for every key whose loader object is the value of
\* no other key of the map; an object that is the value of several keys
\* answers Name() with one of them.
C23_DistinctLoaderNamedByItsKey ==
    probe.fn = "CreateLibraryManager"
    => LET lm == probe.eff
       IN  /\ lm.Libraries = << >>
           /\ DOMAIN lm.Loaders = DOMAIN probe.args
           /\ \A k \in DOMAIN probe.args :
                 /\ GetLoader(lm.Loaders, k)
                 /\ lm.Loaders[k].name \in
                       {k2 \in DOMAIN probe.args : probe.args[k2] = probe.args[k]}
                 /\ DOMAIN LoadSingletonFromLoader(lm.Libraries, << >>, 1,
                              lm.Loaders[k], "cfgA", "ok").libs
                       = {lm.Loaders[k].name}
                 /\ ( \A k2 \in DOMAIN probe.args \ {k} :
                         probe.args[k2] # probe.args[k] )
                    => lm.Loaders[k].name = k

\* a manager made of two loader objects under two keys
C23_Witness ==
    /\ probe.fn = "CreateLibraryManager"
    /\ DOMAIN probe.args = LoaderKeys
    /\ \A k1, k2 \in LoaderKeys : k1 # k2 => probe.args[k1] # probe.args[k2]
    /\ \A k \in LoaderKeys : probe.eff.Loaders[k].name = k

\* C24: a singleton is the instance cached under the key "default": in every
\* state of the registry GetSingletonInstance(name) and GetInstance(name,
\* "default") return the same result, and a keyed load with the key
\* "default" does what the singleton load does, on the loader path and on
\* the type path: it returns the cached singleton without constructing, and
\* an instance loaded under the key "default" is the singleton.
C24_SingletonIsDefaultKey ==
    /\ \A n \in BucketNames :
          /\ GetSingletonInstance(Libraries, n)
                = GetInstance(Libraries, n, DefaultKey)
          /\ <<n, DefaultKey>> \in Slots(Libraries)
             => GetSingletonInstance(Libraries, n)
                   = [ret |-> Libraries[n][DefaultKey], found |-> TRUE,
                      panic |-> FALSE]
    /\ \A n \in DOMAIN Loaders, a \in Args : \A out \in InitOuts(Loaders[n]) :
          LET k == LoadInstanceFromLoader(Libraries, insts, nextId, Loaders[n],
                                          DefaultKey, a, out)
              s == LoadSingletonFromLoader(Libraries, insts, nextId,
                                           Loaders[n], a, out)
          IN  /\ k = s
              /\ <<n, DefaultKey>> \in Slots(Libraries)
                 => k = Hit(Libraries, insts, n, DefaultKey)
    /\ \A t \in types, a \in Args : \A out \in TypeOuts(Libraries, t) :
          LET k == LoadInstance(Libraries, insts, nextId, t, DefaultKey, a, out)
              s == LoadSingleton(Libraries, insts, nextId, t, a, out)
          IN  /\ k = s
              /\ <<TypeName(t), DefaultKey>> \in Slots(Libraries)
                 => k = Hit(Libraries, insts, TypeName(t), DefaultKey)
    /\ (last.op \in Loads /\ last.key = DefaultKey /\ last.err = "none")
       => /\ GetSingletonInstance(Libraries, last.name).ret = last.ret
          /\ GetInstance(Libraries, last.name, DefaultKey).ret = last.ret
          /\ <<last.name, DefaultKey>> \in Slots(last.before)
             => /\ last.ret = last.before[last.name][DefaultKey]
                /\ last.trace = << >>
                /\ last.inits = 0

\* a keyed load with the key "default" returned the singleton that was
\* cached before it, and constructed nothing
C24_Witness ==
    /\ last.op \in {"LoadInstanceFromLoader", "LoadInstance"}
    /\ last.key = DefaultKey
    /\ last.err = "none"
    /\ <<last.name, DefaultKey>> \in Slots(last.before)
    /\ last.ret = last.before[last.name][DefaultKey]
    /\ last.trace = << >>
    /\ GetSingletonInstance(Libraries, last.name).ret = last.ret

\* the entries of the log of a Start that belong to one kind
C25_Of(kind) == SelectSeq(probe.eff, LAMBDA e : e[1] = kind)
C25_Ix(kind) == CHOOSE i \in 1..3 : StartKinds[i] = kind
C25_EntryFailed(e) ==
    \/ e[2] = "GetLoader" /\ ~e[4]
    \/ e[2] = "Load" /\ e[5] # "none"

\* C25: Start goes through the configured kinds in the order database,
\* Redis, Pub/Sub, looking up the loader and loading the singleton of each;
\* a loader that is not registered or a load that fails ends Start with that
\* error and nothing is attempted for a later kind, the singletons loaded
\* before stay cached; a kind that is not configured is neither looked up
\* nor loaded; with nothing configured Start returns nil and the registry
\* is as it was.
C25_StartInOrderFailFast ==
    last.op = "Start"
    => LET cfg == probe.args
           log == probe.eff
       IN  /\ \A i, j \in 1..Len(log) :
                 i < j => C25_Ix(log[i][1]) <= C25_Ix(log[j][1])
           /\ \A i \in 1..Len(log) :
                 /\ StartConfigured(cfg, log[i][1])
                 /\ log[i][3] = StartLoaderName(cfg, log[i][1])
                 /\ C25_EntryFailed(log[i])
                    => i = Len(log) /\ last.err # "none"
                 /\ (log[i][2] = "Load" /\ log[i][5] = "none")
                    => <<log[i][3], DefaultKey>> \in Slots(Libraries)
           /\ \A i \in 1..3 :
                 LET mine == C25_Of(StartKinds[i])
                     kind == StartKinds[i]
                 IN  /\ Len(mine) <= 2
                     /\ Len(mine) >= 1
                        => mine[1] = <<kind, "GetLoader",
                                       StartLoaderName(cfg, kind),
                                       GetLoader(Loaders,
                                                 StartLoaderName(cfg, kind))>>
                     /\ Len(mine) = 2
                        => mine[1][4] /\ mine[2][2] = "Load"
                     /\ (Len(mine) = 1) = (Len(mine) >= 1 /\ ~mine[1][4])
                     /\ ( /\ StartConfigured(cfg, kind)
                          /\ \A j \in 1..Len(log) : ~C25_EntryFailed(log[j]) )
                        => Len(mine) = 2
                     /\ ( /\ StartConfigured(cfg, kind)
                          /\ \E j \in 1..Len(log) :
                                C25_Ix(log[j][1]) > i )
                        => Len(mine) = 2
           /\ (last.err = "none")
                 = (\A j \in 1..Len(log) : ~C25_EntryFailed(log[j]))
           /\ last.err # "none" => C25_EntryFailed(log[Len(log)])
           /\ \A s \in Slots(last.before) :
                 s \in Slots(Libraries) /\ At(Libraries, s) = At(last.before, s)
           /\ (\A i \in 1..3 : ~StartConfigured(cfg, StartKinds[i]))
              => /\ log = << >>
                 /\ last.err = "none"
                 /\ Libraries = last.before
                 /\ last.trace = << >>

\* a Start whose database was loaded and whose Redis failed: the error is
\* returned, Pub/Sub, configured too, was not tried, the database stays
C25_Witness ==
    /\ last.op = "Start"
    /\ probe.args.Database = "mongodb" /\ probe.args.Redis /\ probe.args.PubSub
    /\ last.err # "none"
    /\ Len(C25_Of("Database")) = 2
    /\ C25_Of("Database")[2][5] = "none"
    /\ <<"db:mongodb", DefaultKey>> \notin Slots(last.before)
    /\ <<"db:mongodb", DefaultKey>> \in Slots(Libraries)
    /\ Len(C25_Of("Redis")) >= 1
    /\ C25_Of("PubSub") = << >>

\* C26: Start constructs the library of each configured kind with the
\* application context as first argument and the configuration of that
\* kind as second: a.Config.Database for the database, a.Config.Redis for
\* Redis, a.Config.PubSub for Pub/Sub.
C26_EachKindGetsItsOwnConfig ==
    last.op = "Start"
    => \A i \in 1..Len(probe.eff) :
          probe.eff[i][2] = "Load"
          => probe.eff[i][4] = <<"Context", probe.eff[i][1]>>

\* the store loads of the last AuthN.Install
C27_Loads ==
    SelectSeq(probe.eff.calls, LAMBDA c : c[1] = "LoadSingletonFromLoader")
C27_EarlyFailure ==
    \/ probe.env.does \in {"novalidator", "typemismatch"}
    \/ ~GetLoader(AuthNLoaders, AuthNStoreLoader(probe.env.store))

\* C27: AuthN.Install, called with the arguments it expects, makes at most
\* one LoadSingletonFromLoader call, on the loader "auth.store:<store>", and
\* exactly one when it returns nil; when the validator is not set, the
\* configured type is not the validator's name, the store loader is not
\* registered or the store load fails, it returns an error, no load follows
\* the failure and Authenticator and Authorizer stay nil; both fields are
\* set exactly when Install returns nil.
C27_InstallLoadsTheStoreOnce ==
    ( /\ probe.fn = "AuthN.Install"
      /\ Asserts(probe.args, 1, "AppContext")
      /\ Asserts(probe.args, 2, "AuthConfig") )
    => LET eff == probe.eff
           lName == AuthNStoreLoader(probe.env.store)
       IN  /\ Len(C27_Loads) <= 1
           /\ \A i \in 1..Len(eff.calls) :
                 /\ eff.calls[i][2] = lName
                 /\ eff.calls[i][1] = "LoadSingletonFromLoader"
                    => /\ i = Len(eff.calls)
                       /\ i > 1
                       /\ eff.calls[i - 1] = <<"GetLoader", lName, TRUE>>
           /\ probe.res = "instance"
              => C27_Loads = <<<<"LoadSingletonFromLoader", lName, TRUE>>>>
           /\ C27_EarlyFailure
              => /\ probe.res = "error"
                 /\ C27_Loads = << >>
                 /\ ~eff.Authenticator /\ ~eff.Authorizer
           /\ (~C27_EarlyFailure /\ probe.env.does = "storefails")
              => /\ probe.res = "error"
                 /\ C27_Loads = <<<<"LoadSingletonFromLoader", lName, FALSE>>>>
                 /\ ~eff.Authenticator /\ ~eff.Authorizer
           /\ (eff.Authenticator /\ eff.Authorizer) = (probe.res = "instance")

\* an Install whose store load failed: one load, an error, no field set
C27_Witness ==
    /\ probe.fn = "AuthN.Install"
    /\ Asserts(probe.args, 1, "AppContext")
    /\ Asserts(probe.args, 2, "AuthConfig")
    /\ probe.env.does = "storefails"
    /\ C27_Loads = <<<<"LoadSingletonFromLoader", "auth.store:yaml", FALSE>>>>
    /\ probe.res = "error"
    /\ ~probe.eff.Authenticator /\ ~probe.eff.Authorizer

C29_ReturnedInstanceIsReady ==
    /\ (last.op \in Loads /\ last.err = "none")
       => /\ last.ret \in DOMAIN insts
          /\ insts[last.ret].st # "disconnected"
          /\ insts[last.ret].st
                = (IF insts[last.ret].conn THEN "connected" ELSE "installed")
    /\ (last.op \in Unloads /\ last.pre.st = "disconnected")
       => \A i \in 1..Len(last.trace) : last.trace[i][2] # "Disconnect"

\* C30 as stated: when two goroutines both make the first load under a name
\* whose bucket does not exist yet, with two different keys, both instances
\* are in the cache once both calls have returned, each under its own key:
\* the bucket one of them stored is not replaced by the bucket of the other.
C30_BothFirstLoadsAreCached ==
    ( /\ DOMAIN tasks = Tasks
      /\ \A t \in Tasks :
            /\ tasks[t].pc = "done"
            /\ tasks[t].err = "none"
            /\ tasks[t].seen = "nobucket"
      /\ tasks["t1"].name = tasks["t2"].name
      /\ tasks["t1"].key # tasks["t2"].key
      /\ last.op # "Destroy" )
    => \A t \in Tasks :
          /\ Cached(Libraries, TaskSlot(t))
          /\ At(Libraries, TaskSlot(t)) = tasks[t].lib

\* C31 as stated: under concurrent requests through one handler the
\* identity handed to Authorizer.Check for a request is the identity
\* Authenticator.Check resolved for that request, never the user loaded by
\* another request whose authenticator step ran in between.
C31_AuthorizedAsItself ==
    \A r \in DOMAIN reqs :
       (Len(reqs[r].calls) = 3) => reqs[r].checked = reqs[r].user

\* C32 as stated: in every state of the registry a non-singleton load with
\* a nil key, through LoadFromLoader or LoadLibrary, does what the load with
\* the key "default" does: it stores the new instance under "default" when
\* the bucket is missing, and returns or creates the "default" instance of
\* a bucket that is there, without a panic.
C32_NilKeyIsDefault ==
    /\ \A n \in DOMAIN Loaders, a \in Args : \A out \in InitOuts(Loaders[n]) :
          LET r == LoadFromLoader(Libraries, insts, nextId, Loaders[n], n,
                                  FALSE, NilKey, a, out)
          IN  /\ r.err # "panic"
              /\ r = LoadFromLoader(Libraries, insts, nextId, Loaders[n], n,
                                    FALSE, DefaultKey, a, out)
    /\ \A t \in types, a \in Args : \A out \in TypeOuts(Libraries, t) :
          LET r == LoadLibrary(Libraries, insts, nextId, t, FALSE, NilKey, a,
                               out)
          IN  /\ r.err # "panic"
              /\ r = LoadLibrary(Libraries, insts, nextId, t, FALSE,
                                 DefaultKey, a, out)

\* the teardown of one instance, made once: Uninstall alone, a Disconnect
\* that failed, or Disconnect and then Uninstall
C33_OneTeardown(c) ==
    \/ \E ok \in BOOLEAN : c = <<<<"Uninstall", ok>>>>
    \/ c = <<<<"Disconnect", FALSE>>>>
    \/ \E ok \in BOOLEAN : c = <<<<"Disconnect", TRUE>>, <<"Uninstall", ok>>>>
C33_TeardownFailed(c) == \E i \in 1..Len(c) : ~c[i][2]

\* C33: Destroy makes the teardown of every instance that was cached when
\* it started exactly once, and of no other object, although it deletes
\* from the maps it ranges over; afterwards the cache holds exactly the
\* instances whose teardown failed, under their keys, and is empty when
\* every Disconnect and Uninstall succeeded.
C33_DestroyTearsDownEachOnce ==
    last.op = "Destroy"
    => /\ \A s \in Slots(last.before) :
             LET id == At(last.before, s)
                 c  == Methods(last.trace, id)
             IN  /\ C33_OneTeardown(c)
                 /\ C33_TeardownFailed(c)
                       = (Cached(Libraries, s) /\ At(Libraries, s) = id)
                 /\ ~C33_TeardownFailed(c) => id \notin DOMAIN insts
       /\ \A i \in 1..Len(last.trace) :
             \E s \in Slots(last.before) :
                At(last.before, s) = last.trace[i][1]
       /\ Slots(Libraries) \subseteq Slots(last.before)
       /\ \A n \in DOMAIN Libraries : Libraries[n] # << >>
       /\ (\A i \in 1..Len(last.trace) : last.trace[i][3])
          => Libraries = << >>

\* a Destroy of two instances: the teardown of one failed and it is all
\* that is left in the cache, the other one is gone
C33_Witness ==
    /\ last.op = "Destroy"
    /\ Cardinality(Slots(last.before)) = 2
    /\ Cardinality(Slots(Libraries)) = 1
    /\ \E s \in Slots(Libraries) :
          C33_TeardownFailed(Methods(last.trace, At(Libraries, s)))
    /\ \E s \in Slots(last.before) \ Slots(Libraries) :
          At(last.before, s) \notin DOMAIN insts

\* C34 as stated: CheckSingleLoader returns the loaders it was given, in
\* the same order, when their concrete types are pairwise different, and
\* ends with the fatal "registered multiple times" error when two loaders of
\* the list have the same concrete type name.
C34_DuplicateLoaderIsFatal ==
    probe.fn = "CheckSingleLoader"
    => IF \A i, j \in 1..Len(probe.args) :
             i # j => LoaderTypeName(probe.args[i])
                         # LoaderTypeName(probe.args[j])
       THEN probe.res = "slice" /\ probe.eff = probe.args
       ELSE probe.res = "fatal"

\* C35 as stated: UnmarshalDbMap(MarshalDbMap(x)) into the zero value of the
\* type of x gives x back on every field with a db tag, plain or pointer,
\* nil or not, zero or not, with or without omitempty; a field tagged "" or
\* "-" is not in the map and is not written.
C35_RoundTripReproducesTaggedFields ==
    probe.fn = "UnmarshalDbMap"
    => \A i \in DOMAIN probe.args.typ :
          IF probe.args.typ[i].tag \in {"", "-"}
          THEN /\ i \notin DOMAIN probe.env
               /\ probe.eff[i] = DbZero(probe.args.typ)[i]
          ELSE probe.eff[i] = probe.args.x[i]

====
